---- MODULE Spec2Model ----
(***************************************************************************)
(* The portfolio's home view: the InteractiveCards carousel, the router    *)
(* location it navigates, the viewport mode that selects its layout, and   *)
(* the ContactForm rendered below the carousel.                            *)
(*                                                                         *)
(* React semantics the model relies on:                                    *)
(*  - a click handler runs to completion and React re-renders before the   *)
(*    next click is dispatched, so a handler of the current render reads   *)
(*    the current activeIndex;                                             *)
(*  - useState(0) gives the value at mount; the cell is dropped when the   *)
(*    component unmounts and is initialised again at the next mount;       *)
(*  - AnimatePresence keeps a removed child in the DOM, rendered from the  *)
(*    element of the last render that contained it, until its exit         *)
(*    animation has finished.  That element's onClick is the closure of    *)
(*    that render;                                                         *)
(*  - an async handler that awaits a timer resumes when the timer fires,   *)
(*    whether or not its component is still mounted; a state setter of an  *)
(*    unmounted component changes nothing;                                 *)
(*  - toast() displays in a mounted ToastContainer; with none mounted the  *)
(*    toast waits until one mounts.                                        *)
(***************************************************************************)
EXTENDS Integers, Sequences, FiniteSets, TLC

VARIABLES
    cardData,       \* the deck rendered by InteractiveCards
    location,       \* the router's current path
    navLog,         \* the paths handed to navigate() by the carousel, in order
    innerWidth,     \* viewport width observed by useIsMobile
    activeIndex,    \* useState<number>(0): index of the centred card
    direction,      \* useState<number>(0): -1 previous, 1 next, 0 initial
    exiting,        \* cards AnimatePresence still shows while they play "exit"
    formData,       \* ContactForm useState({ name: '', email: '', message: '' })
    isSubmitting,   \* ContactForm useState(false)
    pending,        \* handleSubmit calls waiting at their await, oldest first
    submitLog,      \* the objects written by console.log('Form Data Submitted:')
    toastShown,     \* toasts a mounted ToastContainer has displayed
    toastQueue,     \* toasts issued while no ToastContainer was mounted
    pointerAt,      \* where the mouse pointer rests on the screen
    isPointer,      \* CustomCursor useState(false)
    cursorMounted,  \* CustomCursor is mounted and its effect has run
    cursorEffects,  \* runs of CustomCursor's effect so far
    listeners,      \* listeners registered on document and document.body
    bodyCursor,     \* document.body.style.cursor
    allItems,       \* allProjects and allCertificates, by the page's path
    visibleCount,   \* useState(6) of ProjectsPage and CertificatesPage
    sheetOpen       \* the drawer (Sheet) of StickySidebar is open

\* The cells of ContactForm and the toasts it issues.
formVars == <<formData, isSubmitting, pending, submitLog, toastShown, toastQueue>>

\* The cells of CustomCursor and what its effect leaves on the document.
cursorVars == <<pointerAt, isPointer, cursorMounted, cursorEffects, listeners, bodyCursor>>

\* The lists and cells of the paginated pages, and the sidebar's drawer.
pageVars == <<allItems, visibleCount>>

\* Everything outside the carousel and the contact form.
siteVars == <<cursorVars, pageVars, sheetOpen>>

vars ==
    <<cardData, location, navLog, innerWidth, activeIndex, direction, exiting,
      formData, isSubmitting, pending, submitLog, toastShown, toastQueue,
      pointerAt, isPointer, cursorMounted, cursorEffects, listeners, bodyCursor,
      allItems, visibleCount, sheetOpen>>

(***************************************************************************)
(* Bounds of the model.                                                    *)
(***************************************************************************)
\* navigate() calls recorded in navLog
MaxNav == 2
\* longest deck of the deck-generic specification
MaxDeck == 6
\* handleSubmit calls in one behaviour of the form specification
MaxSubmit == 2
\* runs of CustomCursor's effect in one behaviour
MaxEffects == 3
\* longest list of a paginated page in the site specification
MaxItems == 8

(***************************************************************************)
(* Data.                                                                   *)
(***************************************************************************)
\* Faulty variant: the About card is listed before the Profile card.
DeckAboutFirst ==
    << [id |-> 2, title |-> "About Me",     type |-> "about",        link |-> "/about"],
       [id |-> 1, title |-> "Profile",      type |-> "profile",      link |-> "/"],
       [id |-> 3, title |-> "Projects",     type |-> "projects",     link |-> "/projects"],
       [id |-> 4, title |-> "Certificates", type |-> "certificates", link |-> "/certificates"],
       [id |-> 5, title |-> "Tech Stack",   type |-> "tech-stack",   link |-> "/tech-stack"] >>

\* Faulty variant: the Contact card, commented out in the source, is part
\* of the deck.
DeckWithContactCard ==
    << [id |-> 1, title |-> "Profile",      type |-> "profile",      link |-> "/"],
       [id |-> 2, title |-> "About Me",     type |-> "about",        link |-> "/about"],
       [id |-> 3, title |-> "Projects",     type |-> "projects",     link |-> "/projects"],
       [id |-> 4, title |-> "Certificates", type |-> "certificates", link |-> "/certificates"],
       [id |-> 5, title |-> "Tech Stack",   type |-> "tech-stack",   link |-> "/tech-stack"],
       [id |-> 6, title |-> "Contact",      type |-> "contact",      link |-> "/contact"] >>

\* The five cards of the deck, in order.
Deck ==
    << [id |-> 1, title |-> "Profile",      type |-> "profile",      link |-> "/"],
       [id |-> 2, title |-> "About Me",     type |-> "about",        link |-> "/about"],
       [id |-> 3, title |-> "Projects",     type |-> "projects",     link |-> "/projects"],
       [id |-> 4, title |-> "Certificates", type |-> "certificates", link |-> "/certificates"],
       [id |-> 5, title |-> "Tech Stack",   type |-> "tech-stack",   link |-> "/tech-stack"] >>

\* A deck of n cards for the deck-generic specification: the real deck, cut
\* or continued with cards of the 'contact' type the interface allows.
AnyDeck(n) ==
    [i \in 1..n |->
        IF i <= Len(Deck) THEN Deck[i]
        ELSE [id |-> i, title |-> "Contact", type |-> "contact", link |-> "/contact"]]

\* The paths for which <Routes> has a <Route>.
RoutePaths == {"/", "/projects", "/about", "/certificates", "/tech-stack"}

\* The path attributes of the <Route> elements of <Routes>, in order, and
\* the routes a path matches; there is no catch-all route.
Routes == <<"/", "/projects", "/about", "/certificates", "/tech-stack">>
RouteMatches(path) == {r \in DOMAIN Routes : Routes[r] = path}

\* The fields of the contact form, and the texts the model types into them:
\* the empty text and two texts that pass the inputs' validation.
Fields == {"name", "email", "message"}
FieldValues == {"", "a", "b"}

\* The ids of the items of ProjectsPage's allProjects and of
\* CertificatesPage's allCertificates, in order.
allProjects == <<1, 2>>
allCertificates == <<1>>

\* The listeners the run number n of CustomCursor's effect registers: its own
\* three handler functions.
EffectListeners(n) ==
    {[target |-> "document",      type |-> "mousemove",  effect |-> n],
     [target |-> "document.body", type |-> "mouseenter", effect |-> n],
     [target |-> "document.body", type |-> "mouseleave", effect |-> n]}

\* The argument of ContactForm's useState for formData.
initialFormData == [name |-> "", email |-> "", message |-> ""]

\* Width below which useIsMobile reports a compact viewport.
MOBILE_BREAKPOINT == 768

\* useIsMobile: compact below the breakpoint, wide otherwise.
useIsMobile(width) == width < MOBILE_BREAKPOINT

\* Viewport widths the model resizes between.
Widths == {MOBILE_BREAKPOINT - 1, MOBILE_BREAKPOINT, MOBILE_BREAKPOINT + 1}

isMobile == useIsMobile(innerWidth)

\* cardData.length
N == Len(cardData)

\* cardData[index], with the 0-based index of the source.
Card(index) == cardData[index + 1]

\* <Route path="/" element={<HomePageLayout />}>: the carousel is mounted
\* exactly while the location is the root path.
Mounted == location = "/"

(***************************************************************************)
(* Arithmetic of the source language.                                      *)
(***************************************************************************)
\* The % operator: the remainder takes the sign of the dividend.
JSRem(a, b) == IF a >= 0 THEN a % b ELSE -((-a) % b)

(***************************************************************************)
(* The carousel controller.  Each operator takes the activeIndex its       *)
(* closure holds and returns the values handed to the state setters.       *)
(***************************************************************************)
\* Faulty variant: the index is updated first and the comparison reads the
\* updated value.
handleNavigationComparesAfterUpdate(cur, newIndex) ==
    [activeIndex |-> newIndex,
     direction   |-> IF newIndex > newIndex THEN 1
                     ELSE (IF newIndex < newIndex THEN -1 ELSE 0)]

\* handleNavigation(newIndex), run by a closure whose activeIndex is cur.
handleNavigation(cur, newIndex) ==
    [activeIndex |-> newIndex,
     direction   |-> IF newIndex > cur THEN 1 ELSE (IF newIndex < cur THEN -1 ELSE 0)]

\* Faulty variant: the carousel stops at the last card instead of wrapping.
goToNextIndexClamped(cur) == IF cur + 1 < N THEN cur + 1 ELSE cur

\* Faulty variant: the remainder is taken by one more than cardData.length.
goToNextIndexOffByOne(cur) == JSRem(cur + 1, N + 1)

\* goToNext's nextIndex
goToNextIndex(cur) == JSRem(cur + 1, N)

\* Faulty variant: cardData.length is not added before the remainder.
goToPrevIndexNoWrap(cur) == JSRem(cur - 1, N)

\* goToPrev's prevIndex
goToPrevIndex(cur) == JSRem(cur - 1 + N, N)

goToNext(cur) == handleNavigation(cur, goToNextIndex(cur))

goToPrev(cur) == handleNavigation(cur, goToPrevIndex(cur))

\* Faulty variant: cardData.length is not added before the remainder.
prevIndexNoWrap == JSRem(activeIndex - 1, N)

\* The render's prevIndex and nextIndex.
prevIndex == JSRem(activeIndex - 1 + N, N)
nextIndex == JSRem(activeIndex + 1, N)

\* The indices a render with activeIndex = a hands to AnimatePresence.
Slots(a) == {JSRem(a - 1 + N, N), a, JSRem(a + 1, N)}

(***************************************************************************)
(* Rendering after a state update.                                         *)
(***************************************************************************)
\* Faulty variant: a card dropped from the render is unmounted at once, as
\* if it had no exit animation.
PresenceAfterNoExit(old, new) == {}

\* The cards AnimatePresence keeps for their exit animation once the render
\* moves from activeIndex = old to activeIndex = new.  Each remembers the
\* activeIndex of the last render that contained it: its handlers are that
\* render's closures.  A card that is rendered again stops exiting.
PresenceAfter(old, new) ==
    {e \in exiting : e.index \notin Slots(new)}
    \cup {[index |-> i, activeIndex |-> old] : i \in Slots(old) \ Slots(new)}

\* setDirection(...); setActiveIndex(...); and the render that follows.
SetCarousel(r) ==
    /\ activeIndex' = r.activeIndex
    /\ direction' = r.direction
    /\ exiting' = PresenceAfter(activeIndex, r.activeIndex)
    /\ UNCHANGED <<cardData, location, navLog, innerWidth>>
    /\ UNCHANGED <<formVars, siteVars>>

\* The paginated pages and the argument of their useState for visibleCount.
PaginatedPages == {"/projects", "/certificates"}
initialVisibleCount == 6

\* The router renders the element of path: a paginated page that mounts
\* starts from useState(6); the cell of the other page is not written.
PageMount(path) ==
    [p \in PaginatedPages |->
        IF p = path /\ location # path THEN initialVisibleCount ELSE visibleCount[p]]

\* The handleSubmit calls in flight once their ContactForm has unmounted:
\* their timers stay armed, their setters belong to a component that is gone.
Orphaned(calls) == [i \in DOMAIN calls |-> [calls[i] EXCEPT !.live = FALSE]]

\* navigate(to): the router moves to the path; a path other than the root
\* unmounts HomePageLayout and with it the carousel, its exiting cards and
\* the ContactForm with its ToastContainer.  The state cells are not
\* written: they are initialised at the next mount.
NavigateTo(log) ==
    /\ Len(navLog) < MaxNav
    /\ navLog' = log
    /\ location' = log[Len(log)]
    /\ exiting' = IF log[Len(log)] = "/" THEN exiting ELSE {}
    /\ pending' = IF log[Len(log)] = "/" THEN pending ELSE Orphaned(pending)
    /\ visibleCount' = PageMount(log[Len(log)])
    /\ UNCHANGED <<cardData, innerWidth, activeIndex, direction>>
    /\ UNCHANGED <<formData, isSubmitting, submitLog, toastShown, toastQueue>>
    /\ UNCHANGED <<cursorVars, allItems, sheetOpen>>

(***************************************************************************)
(* Handlers of the wide (desktop) layout.                                  *)
(***************************************************************************)
\* Left arrow: onClick={goToPrev}
ClickPrev ==
    /\ Mounted /\ ~isMobile
    /\ SetCarousel(goToPrev(activeIndex))

\* Faulty variant: the right arrow does nothing on the last card.
ClickNextStopsAtEnd ==
    /\ Mounted /\ ~isMobile
    /\ activeIndex + 1 < N
    /\ SetCarousel(goToNext(activeIndex))

\* Right arrow: onClick={goToNext}
ClickNext ==
    /\ Mounted /\ ~isMobile
    /\ SetCarousel(goToNext(activeIndex))

\* Faulty variant: the centre card navigates whatever its type.
DesktopCardOnClickAlwaysNavigates(index, cur) ==
    IF index # cur
    THEN SetCarousel(handleNavigation(cur, index))
    ELSE NavigateTo(Append(navLog, Card(index).link))

\* The onClick of a desktop card rendered for `index` by a render whose
\* activeIndex was `cur`.
DesktopCardOnClick(index, cur) ==
    IF index # cur
    THEN SetCarousel(handleNavigation(cur, index))
    ELSE IF Card(index).type # "profile"
         THEN NavigateTo(Append(navLog, Card(index).link))
         ELSE UNCHANGED vars

\* A click on one of the three cards of the current render.
DesktopCardClick(index) ==
    /\ Mounted /\ ~isMobile
    /\ index \in Slots(activeIndex)
    /\ DesktopCardOnClick(index, activeIndex)

\* Faulty variant: without stopPropagation the click bubbles to the card,
\* whose onClick navigates again.
ViewButtonOnClickBubbling(log, card) == Append(Append(log, card.link), card.link)

\* The View button's onClick: e.stopPropagation(); navigate(card.link).
\* Returns the navigate() calls made by the click.
ViewButtonOnClick(log, card) == Append(log, card.link)

\* A click on the View button, rendered on the centre card unless it is the
\* profile card.
ViewButtonClick ==
    /\ Mounted /\ ~isMobile
    /\ Card(activeIndex).type # "profile"
    /\ NavigateTo(ViewButtonOnClick(navLog, Card(activeIndex)))

\* A click that lands on a card still playing its exit animation: the
\* handler is the one of the card's last render.
ExitingCardClick(e) ==
    /\ Mounted /\ ~isMobile
    /\ e \in exiting
    /\ DesktopCardOnClick(e.index, e.activeIndex)

\* The exit animation of a card finishes and AnimatePresence removes it.
ExitComplete(e) ==
    /\ e \in exiting
    /\ exiting' = exiting \ {e}
    /\ UNCHANGED <<cardData, location, navLog, innerWidth, activeIndex, direction>>
    /\ UNCHANGED <<formVars, siteVars>>

(***************************************************************************)
(* Handler of the compact (mobile) layout.                                 *)
(***************************************************************************)
\* Faulty variant: the tap is dispatched like a click on a desktop card.
MobileCardOnClickActivates(index) ==
    DesktopCardOnClick(index, activeIndex)

\* onClick={() => navigate(card.link)}
MobileCardOnClick(index) ==
    NavigateTo(Append(navLog, Card(index).link))

\* A tap on a card of the scroll strip; every card of the deck is rendered.
MobileCardClick(index) ==
    /\ Mounted /\ isMobile
    /\ index \in 0..(N - 1)
    /\ MobileCardOnClick(index)

(***************************************************************************)
(* Environment: the viewport and the routed pages.                         *)
(***************************************************************************)
\* Faulty variant: a mode change remounts the component, which starts again
\* from useState(0).
ResizeRemounts(w) ==
    /\ w \in Widths /\ w # innerWidth
    /\ innerWidth' = w
    /\ activeIndex' = IF useIsMobile(w) # isMobile THEN 0 ELSE activeIndex
    /\ direction' = IF useIsMobile(w) # isMobile THEN 0 ELSE direction
    /\ exiting' = IF useIsMobile(w) # isMobile THEN {} ELSE exiting
    /\ UNCHANGED <<cardData, location, navLog>>
    /\ sheetOpen' = IF useIsMobile(w) # isMobile THEN FALSE ELSE sheetOpen
    /\ UNCHANGED <<formVars, cursorVars, pageVars>>

\* The viewport is resized to width w.  InteractiveCards re-renders with the
\* new isMobile; a mode change swaps the rendered branch of the ternary, which
\* unmounts AnimatePresence and its exiting cards.  The component itself
\* stays mounted, so its state cells are kept.
Resize(w) ==
    /\ w \in Widths /\ w # innerWidth
    /\ innerWidth' = w
    /\ exiting' = IF useIsMobile(w) # isMobile THEN {} ELSE exiting
    /\ UNCHANGED <<cardData, location, navLog, activeIndex, direction>>
    /\ sheetOpen' = IF useIsMobile(w) # isMobile THEN FALSE ELSE sheetOpen
    /\ UNCHANGED <<formVars, cursorVars, pageVars>>

\* The routed pages that render a "Back to Home" <Link to="/">.  The About
\* page has the link commented out.
PagesWithHomeLink == {"/projects", "/certificates", "/tech-stack"}

\* A ContactForm mounts: its cells take their useState arguments, and its
\* ToastContainer displays the toasts issued while no container was mounted.
\* Calls of an earlier ContactForm that still wait keep waiting.
ContactFormMount ==
    /\ formData' = initialFormData
    /\ isSubmitting' = FALSE
    /\ toastShown' = toastShown + toastQueue
    /\ toastQueue' = 0
    /\ UNCHANGED <<pending, submitLog, siteVars>>

\* Faulty variant: the carousel comes back with the state it had when the
\* home route was left, as if the two cells were kept outside the component.
BackToHomeKeepsState ==
    /\ location \in PagesWithHomeLink
    /\ location' = "/"
    /\ exiting' = {}
    /\ UNCHANGED <<cardData, navLog, innerWidth, activeIndex, direction>>
    /\ ContactFormMount

\* A click on the "Back to Home" link of a routed page: HomePageLayout mounts,
\* InteractiveCards starts from useState(0) for both cells and a new
\* ContactForm from its own initial state.
BackToHome ==
    /\ location \in PagesWithHomeLink
    /\ location' = "/"
    /\ activeIndex' = 0
    /\ direction' = 0
    /\ exiting' = {}
    /\ UNCHANGED <<cardData, navLog, innerWidth>>
    /\ ContactFormMount

(***************************************************************************)
(* CustomCursor, rendered by App outside the routes.                       *)
(***************************************************************************)
\* An element of the document, as far as the cursor's selector reads it.
Element(tag, role, dataInteractive) ==
    [tag |-> tag, role |-> role, dataInteractive |-> dataInteractive]

\* The selector of handleMouseMove: 'a, button, [role="button"], input,
\* textarea, select, [data-interactive="true"]'.
MatchesSelector(el) ==
    \/ el.tag \in {"a", "button", "input", "textarea", "select"}
    \/ el.role = "button"
    \/ el.dataInteractive = "true"

\* target.closest(selector) is not null: the target or one of its ancestors
\* matches.  The chain lists the target first, then its ancestors.
closest(chain) == \E i \in DOMAIN chain : MatchesSelector(chain[i])

\* The places of the wide home layout the model rests the pointer on, and
\* "outside" for a pointer that is not over the window.
Positions ==
    {"leftArrow", "leftCard", "centreCard", "viewButton", "rightCard",
     "rightArrow", "background"}

\* The content of the motion.div of a card: the profile image, or the icon
\* of another card, inside its wrapper.
CardContent(card) ==
    IF card.type = "profile"
    THEN <<Element("img", "", ""), Element("div", "", "")>>
    ELSE <<Element("svg", "", ""), Element("div", "", "")>>

\* The motion.div of the card index: data-interactive="true" only when the
\* card is not the active one.
CardElement(index) ==
    Element("div", "", IF index # activeIndex THEN "true" ELSE "")

\* e.target and its ancestors for a pointer at position in the wide home
\* layout.  "viewButton" is the place at the foot of the centre card where a
\* card other than the profile card renders its View button.
TargetAt(position) ==
    CASE position = "leftArrow" ->
            <<Element("svg", "", ""), Element("button", "", "true")>>
      [] position = "rightArrow" ->
            <<Element("svg", "", ""), Element("button", "", "true")>>
      [] position = "leftCard" ->
            CardContent(Card(prevIndex)) \o <<CardElement(prevIndex)>>
      [] position = "rightCard" ->
            CardContent(Card(nextIndex)) \o <<CardElement(nextIndex)>>
      [] position = "centreCard" ->
            CardContent(Card(activeIndex)) \o <<CardElement(activeIndex)>>
      [] position = "viewButton" ->
            IF Card(activeIndex).type = "profile"
            THEN CardContent(Card(activeIndex)) \o <<CardElement(activeIndex)>>
            ELSE <<Element("button", "", "true"), CardElement(activeIndex)>>
      [] OTHER -> <<Element("div", "", "")>>

\* The mousemove listener of CustomCursor is registered.
MouseMoveListening == \E l \in listeners : l.type = "mousemove"

\* The mouse moves to position over the wide home layout.  A registered
\* handleMouseMove sets isPointer from the element now under the pointer.
handleMouseMove(position) ==
    /\ Mounted /\ ~isMobile
    /\ position \in Positions
    /\ position # pointerAt
    /\ pointerAt' = position
    /\ isPointer' = IF MouseMoveListening THEN closest(TargetAt(position))
                                          ELSE isPointer
    /\ UNCHANGED <<cardData, location, navLog, innerWidth, activeIndex,
                   direction, exiting, formVars>>
    /\ UNCHANGED <<cursorMounted, cursorEffects, listeners, bodyCursor,
                   pageVars, sheetOpen>>

\* A mouse click on the side card the pointer rests on.
SideCardPointerClick ==
    /\ pointerAt \in {"leftCard", "rightCard"}
    /\ DesktopCardClick(IF pointerAt = "leftCard" THEN prevIndex ELSE nextIndex)

\* Faulty variant: the cleanup passes new functions to removeEventListener,
\* which removes nothing.
CustomCursorCleanupNewHandlers ==
    /\ cursorMounted
    /\ cursorMounted' = FALSE
    /\ bodyCursor' = "auto"
    /\ UNCHANGED listeners
    /\ UNCHANGED <<cardData, location, navLog, innerWidth, activeIndex,
                   direction, exiting, formVars>>
    /\ UNCHANGED <<pointerAt, isPointer, cursorEffects, pageVars, sheetOpen>>

\* CustomCursor unmounts and the cleanup of its effect runs: it removes the
\* three handlers of that effect and sets document.body.style.cursor.
CustomCursorCleanup ==
    /\ cursorMounted
    /\ cursorMounted' = FALSE
    /\ listeners' = listeners \ EffectListeners(cursorEffects)
    /\ bodyCursor' = "auto"
    /\ UNCHANGED <<cardData, location, navLog, innerWidth, activeIndex,
                   direction, exiting, formVars>>
    /\ UNCHANGED <<pointerAt, isPointer, cursorEffects, pageVars, sheetOpen>>

\* CustomCursor mounts: isPointer starts from useState(false) and the effect
\* registers its three handlers and hides the system cursor.
CustomCursorSetup ==
    /\ ~cursorMounted
    /\ cursorEffects < MaxEffects
    /\ cursorMounted' = TRUE
    /\ cursorEffects' = cursorEffects + 1
    /\ isPointer' = FALSE
    /\ listeners' = listeners \cup EffectListeners(cursorEffects + 1)
    /\ bodyCursor' = "none"
    /\ UNCHANGED <<cardData, location, navLog, innerWidth, activeIndex,
                   direction, exiting, formVars>>
    /\ UNCHANGED <<pointerAt, pageVars, sheetOpen>>

(***************************************************************************)
(* The paginated pages: ProjectsPage and CertificatesPage.                 *)
(***************************************************************************)
\* Array.prototype.slice(start, end) for 0 <= start and 0 <= end.
slice(array, start, end) ==
    LET stop == IF end < Len(array) THEN end ELSE Len(array)
    IN  [i \in 1..(IF stop > start THEN stop - start ELSE 0) |-> array[start + i]]

\* visibleProjects / visibleCertificates of the page at path page
visibleItems(page) == slice(allItems[page], 0, visibleCount[page])

\* The 'See More' button is rendered.
SeeMoreOffered(page) == visibleCount[page] < Len(allItems[page])

\* Faulty variant: the last item stays hidden.
showAllButLast(page) ==
    /\ location = page
    /\ SeeMoreOffered(page)
    /\ visibleCount' = [visibleCount EXCEPT ![page] = Len(allItems[page]) - 1]
    /\ UNCHANGED <<cardData, location, navLog, innerWidth, activeIndex,
                   direction, exiting, formVars>>
    /\ UNCHANGED <<cursorVars, allItems, sheetOpen>>

\* onClick={showAllProjects} / onClick={showAllCertificates} on the page's
\* 'See More' button: setVisibleCount(all.length).
showAll(page) ==
    /\ location = page
    /\ SeeMoreOffered(page)
    /\ visibleCount' = [visibleCount EXCEPT ![page] = Len(allItems[page])]
    /\ UNCHANGED <<cardData, location, navLog, innerWidth, activeIndex,
                   direction, exiting, formVars>>
    /\ UNCHANGED <<cursorVars, allItems, sheetOpen>>

(***************************************************************************)
(* StickySidebar, rendered by App outside the routes.                      *)
(***************************************************************************)
\* The ids of socialLinks, in order.
socialLinks == <<"cv", "github", "website", "linkedin">>

\* Faulty variant: the compact branch lists the links outside the drawer.
StickySidebarLinksOutsideDrawer == socialLinks

\* The links StickySidebar shows: in the compact branch the content of the
\* Sheet, which is rendered while the Sheet is open; in the wide branch the
\* panel's list.
StickySidebar ==
    IF isMobile
    THEN (IF sheetOpen THEN socialLinks ELSE <<>>)
    ELSE socialLinks

\* The SheetTrigger button of the compact branch is activated.
SheetTriggerClick ==
    /\ isMobile
    /\ ~sheetOpen
    /\ sheetOpen' = TRUE
    /\ UNCHANGED <<cardData, location, navLog, innerWidth, activeIndex,
                   direction, exiting, formVars, cursorVars, pageVars>>

\* The open drawer is dismissed (close button, overlay or Escape).
SheetClose ==
    /\ isMobile
    /\ sheetOpen
    /\ sheetOpen' = FALSE
    /\ UNCHANGED <<cardData, location, navLog, innerWidth, activeIndex,
                   direction, exiting, formVars, cursorVars, pageVars>>

(***************************************************************************)
(* Handlers of ContactForm, rendered on the home route below the carousel. *)
(***************************************************************************)
\* The browser lets the form submit: every input is 'required', and the
\* submit button is disabled={isSubmitting}.
CanSubmit ==
    /\ \A name \in Fields : formData[name] # ""
    /\ ~isSubmitting

\* onChange={handleChange} on an input: setFormData(prev => ({...prev,
\* [name]: value})).  The inputs stay editable while a submit waits.
handleChange(name, value) ==
    /\ Mounted
    /\ value # formData[name]
    /\ formData' = [formData EXCEPT ![name] = value]
    /\ UNCHANGED <<cardData, location, navLog, innerWidth, activeIndex,
                   direction, exiting, siteVars>>
    /\ UNCHANGED <<isSubmitting, pending, submitLog, toastShown, toastQueue>>

\* onSubmit={handleSubmit}, up to its await: setIsSubmitting(true) and a
\* 1000 ms timer.  The call keeps the formData of the render it was made in.
handleSubmit ==
    /\ Mounted
    /\ CanSubmit
    /\ Len(submitLog) + Len(pending) < MaxSubmit
    /\ isSubmitting' = TRUE
    /\ pending' = Append(pending, [formData |-> formData, live |-> TRUE])
    /\ UNCHANGED <<cardData, location, navLog, innerWidth, activeIndex,
                   direction, exiting, siteVars>>
    /\ UNCHANGED <<formData, submitLog, toastShown, toastQueue>>

\* The timer of the oldest waiting call fires and handleSubmit resumes:
\* console.log of its formData, toast.success, setFormData(empty) and
\* setIsSubmitting(false).  The toast is displayed if a ToastContainer is
\* mounted and queued otherwise; the setters of an unmounted ContactForm
\* change nothing.
handleSubmitResume ==
    /\ pending # <<>>
    /\ pending' = Tail(pending)
    /\ submitLog' = Append(submitLog, Head(pending).formData)
    /\ toastShown' = IF Mounted THEN toastShown + 1 ELSE toastShown
    /\ toastQueue' = IF Mounted THEN toastQueue ELSE toastQueue + 1
    /\ formData' = IF Head(pending).live THEN initialFormData ELSE formData
    /\ isSubmitting' = IF Head(pending).live THEN FALSE ELSE isSubmitting
    /\ UNCHANGED <<cardData, location, navLog, innerWidth, activeIndex,
                   direction, exiting, siteVars>>

(***************************************************************************)
(* Specifications.                                                         *)
(***************************************************************************)
\* No form has been filled in or submitted, no toast issued.
ContactFormInit ==
    /\ formData = initialFormData
    /\ isSubmitting = FALSE
    /\ pending = <<>>
    /\ submitLog = <<>>
    /\ toastShown = 0
    /\ toastQueue = 0

\* CustomCursor is mounted and its effect has run once; the pointer has not
\* entered the window.
CustomCursorInit ==
    /\ pointerAt = "outside"
    /\ isPointer = FALSE
    /\ cursorMounted = TRUE
    /\ cursorEffects = 1
    /\ listeners = EffectListeners(1)
    /\ bodyCursor = "none"

\* The pages have their two projects and their one certificate, and the
\* drawer of the sidebar is closed.
SiteInit ==
    /\ CustomCursorInit
    /\ allItems = [p \in PaginatedPages |-> IF p = "/projects" THEN allProjects ELSE allCertificates]
    /\ visibleCount = [p \in PaginatedPages |-> initialVisibleCount]
    /\ sheetOpen = FALSE

\* The application is loaded at one of its routes, at some viewport width.
Init ==
    /\ cardData = Deck
    /\ location \in RoutePaths
    /\ navLog = <<>>
    /\ innerWidth \in Widths
    /\ activeIndex = 0
    /\ direction = 0
    /\ exiting = {}
    /\ ContactFormInit
    /\ SiteInit

Next ==
    \/ ClickPrev
    \/ ClickNext
    \/ \E index \in 0..(N - 1) : DesktopCardClick(index)
    \/ ViewButtonClick
    \/ \E e \in exiting : ExitingCardClick(e)
    \/ \E e \in exiting : ExitComplete(e)
    \/ \E index \in 0..(N - 1) : MobileCardClick(index)
    \/ \E w \in Widths : Resize(w)
    \/ BackToHome

Spec == Init /\ [][Next]_vars

\* The controller over a deck of any length from 1 to MaxDeck, driven by its
\* two arrows and by resizes.
InitAnyDeck ==
    /\ cardData \in {AnyDeck(n) : n \in 1..MaxDeck}
    /\ location = "/"
    /\ navLog = <<>>
    /\ innerWidth \in Widths
    /\ activeIndex = 0
    /\ direction = 0
    /\ exiting = {}
    /\ ContactFormInit
    /\ SiteInit

NextAnyDeck ==
    \/ ClickPrev
    \/ ClickNext
    \/ \E w \in Widths : Resize(w)

SpecAnyDeck == InitAnyDeck /\ [][NextAnyDeck]_vars

\* The home route on a compact viewport: the contact form is filled in and
\* submitted while taps on the cards of the strip open their pages and the
\* "Back to Home" links lead back.  A timer that is armed fires.
InitForm ==
    /\ cardData = Deck
    /\ location = "/"
    /\ navLog = <<>>
    /\ innerWidth = MOBILE_BREAKPOINT - 1
    /\ activeIndex = 0
    /\ direction = 0
    /\ exiting = {}
    /\ ContactFormInit
    /\ SiteInit

NextForm ==
    \/ \E name \in Fields, value \in FieldValues : handleChange(name, value)
    \/ handleSubmit
    \/ handleSubmitResume
    \/ \E index \in 0..(N - 1) : MobileCardClick(index)
    \/ BackToHome

SpecForm == InitForm /\ [][NextForm]_vars /\ WF_vars(handleSubmitResume)

\* The home route on a wide viewport: the mouse moves over the carousel and
\* clicks its side cards, the arrow buttons are activated (by the mouse or,
\* once focused, from the keyboard), and CustomCursor unmounts and mounts.
InitCursor ==
    /\ cardData = Deck
    /\ location = "/"
    /\ navLog = <<>>
    /\ innerWidth = MOBILE_BREAKPOINT
    /\ activeIndex = 0
    /\ direction = 0
    /\ exiting = {}
    /\ ContactFormInit
    /\ SiteInit

NextCursor ==
    \/ \E position \in Positions : handleMouseMove(position)
    \/ SideCardPointerClick
    \/ ClickPrev
    \/ ClickNext
    \/ \E e \in exiting : ExitComplete(e)
    \/ CustomCursorCleanup
    \/ CustomCursorSetup

SpecCursor == InitCursor /\ [][NextCursor]_vars

\* The site around the carousel: pages with lists of any length from 0 to
\* MaxItems are opened from the carousel and left by their "Back to Home"
\* links, their 'See More' buttons are clicked, the viewport is resized and
\* the sidebar's drawer is opened and closed.
InitSite ==
    /\ cardData = Deck
    /\ location = "/"
    /\ navLog = <<>>
    /\ innerWidth \in Widths
    /\ activeIndex = 0
    /\ direction = 0
    /\ exiting = {}
    /\ ContactFormInit
    /\ CustomCursorInit
    /\ allItems \in [PaginatedPages -> {[i \in 1..n |-> i] : n \in 0..MaxItems}]
    /\ visibleCount = [p \in PaginatedPages |-> initialVisibleCount]
    /\ sheetOpen = FALSE

NextSite ==
    \/ \E index \in 0..(N - 1) : MobileCardClick(index)
    \/ \E index \in Slots(activeIndex) : DesktopCardClick(index)
    \/ BackToHome
    \/ \E page \in PaginatedPages : showAll(page)
    \/ \E w \in Widths : Resize(w)
    \/ SheetTriggerClick
    \/ SheetClose

SpecSite == InitSite /\ [][NextSite]_vars

TypeOK ==
    /\ cardData \in {AnyDeck(n) : n \in 1..MaxDeck}
    /\ location \in RoutePaths
    /\ navLog \in Seq(RoutePaths) /\ Len(navLog) <= MaxNav
    /\ innerWidth \in Widths
    /\ direction \in {-1, 0, 1}
    /\ \A e \in exiting : e.index \in 0..(N - 1) /\ e.activeIndex \in 0..(N - 1)
    /\ formData \in [Fields -> FieldValues]
    /\ isSubmitting \in BOOLEAN
    /\ pending \in Seq([formData : [Fields -> FieldValues], live : BOOLEAN])
    /\ submitLog \in Seq([Fields -> FieldValues])
    /\ Len(submitLog) + Len(pending) <= MaxSubmit
    /\ toastShown \in 0..MaxSubmit /\ toastQueue \in 0..MaxSubmit
    /\ pointerAt \in Positions \cup {"outside"}
    /\ isPointer \in BOOLEAN /\ cursorMounted \in BOOLEAN
    /\ cursorEffects \in 1..MaxEffects
    /\ bodyCursor \in {"none", "auto"}
    /\ \A p \in PaginatedPages :
          Len(allItems[p]) <= MaxItems /\ visibleCount[p] \in 0..MaxItems
    /\ sheetOpen \in BOOLEAN

(***************************************************************************)
(* Helpers of the properties.                                              *)
(***************************************************************************)
Sign(x) == IF x > 0 THEN 1 ELSE (IF x < 0 THEN -1 ELSE 0)

ValidIndex(i) == i \in 0..(N - 1) /\ (i + 1) \in DOMAIN cardData

\* The step runs handleNavigation(k): an arrow, a side card of the current
\* render, or a side card that is still exiting.
HandleNavigationStep(k) ==
    \/ ClickNext /\ k = goToNextIndex(activeIndex)
    \/ ClickPrev /\ k = goToPrevIndex(activeIndex)
    \/ DesktopCardClick(k) /\ k # activeIndex
    \/ \E e \in exiting : e.index = k /\ e.index # e.activeIndex /\ ExitingCardClick(e)

(***************************************************************************)
(* C1.  In every reachable state activeIndex is an index of the deck, and  *)
(* so are the render's prevIndex and nextIndex: cardData[activeIndex],     *)
(* cardData[prevIndex] and cardData[nextIndex] are defined.                *)
(***************************************************************************)
C1_ActiveIndexInRange ==
    /\ ValidIndex(activeIndex)
    /\ ValidIndex(prevIndex)
    /\ ValidIndex(nextIndex)

\* The left arrow has wrapped from the first card to the last one.
C1_Witness ==
    /\ Mounted /\ ~isMobile
    /\ activeIndex = N - 1
    /\ [index |-> 1, activeIndex |-> 0] \in exiting

(***************************************************************************)
(* C2.  For every deck length and every activeIndex, goToNext followed by  *)
(* goToPrev, and goToPrev followed by goToNext, give back the activeIndex  *)
(* they started from.                                                      *)
(***************************************************************************)
C2_AdvanceRetreatInverse ==
    /\ goToPrev(goToNext(activeIndex).activeIndex).activeIndex = activeIndex
    /\ goToNext(goToPrev(activeIndex).activeIndex).activeIndex = activeIndex

\* The last card of a deck of at least two cards is active after an arrow
\* click: the advance of the pair wraps.
C2_Witness ==
    /\ N >= 2
    /\ activeIndex = N - 1
    /\ direction # 0

(***************************************************************************)
(* C3.  Every click on the left arrow (goToPrev) leaves direction = -1,    *)
(* and from activeIndex = 0 it leaves activeIndex = N - 1.                 *)
(***************************************************************************)
C3_RetreatIsBackward ==
    [][ClickPrev => (direction' = -1 /\ (activeIndex = 0 => activeIndex' = N - 1))]_vars

(***************************************************************************)
(* C4.  Every click on the right arrow (goToNext) leaves direction = 1,    *)
(* and from activeIndex = 0 it leaves activeIndex = 1.                     *)
(***************************************************************************)
C4_AdvanceIsForward ==
    [][ClickNext => (direction' = 1 /\ (activeIndex = 0 => activeIndex' = 1))]_vars

(***************************************************************************)
(* C5.  Every run of handleNavigation(k) sets direction to the sign of     *)
(* k - activeIndex, with the activeIndex of the state before the step,     *)
(* sets activeIndex to k, and changes neither the deck, the location, the  *)
(* navigation log nor the viewport.                                        *)
(***************************************************************************)
C5_HandleNavigationEffect ==
    [][\A k \in 0..(N - 1) :
          HandleNavigationStep(k) =>
              /\ direction' = Sign(k - activeIndex)
              /\ activeIndex' = k
              /\ UNCHANGED <<cardData, location, navLog, innerWidth>>]_vars

\* A click or tap on the card rendered for index i by the current render.
ActivateStep(i) == DesktopCardClick(i) \/ MobileCardClick(i)

(***************************************************************************)
(* C6.  In every viewport mode, a click or tap on the card at activeIndex, *)
(* when that card is the profile card, changes neither activeIndex nor     *)
(* direction and hands no path to navigate().                              *)
(***************************************************************************)
C6_ProfileActivationInert ==
    [][(Card(activeIndex).type = "profile" /\ ActivateStep(activeIndex)) =>
          UNCHANGED <<activeIndex, direction, navLog, location>>]_vars

\* C6 as amended: neither mode changes activeIndex or direction; the wide
\* layout hands nothing to navigate(), the compact layout hands it the
\* profile card's link.
C6_ProfileActivationByMode ==
    [][(Card(activeIndex).type = "profile" /\ ActivateStep(activeIndex)) =>
          /\ UNCHANGED <<activeIndex, direction, location>>
          /\ ~isMobile => navLog' = navLog
          /\ isMobile => navLog' = Append(navLog, Card(activeIndex).link)]_vars

\* The wide carousel is back on the profile card after having moved.
C6_Witness ==
    /\ Mounted /\ ~isMobile
    /\ Card(activeIndex).type = "profile"
    /\ direction # 0
    /\ navLog = <<>>

(***************************************************************************)
(* C7.  A click on the centre card or on its View button (or a tap on the  *)
(* card at activeIndex in the compact layout), when that card is not the   *)
(* profile card, hands exactly one path to navigate(), the card's link,    *)
(* and leaves activeIndex and direction as they were.                      *)
(***************************************************************************)
C7_ActiveActivationNavigatesOnce ==
    [][(/\ Card(activeIndex).type # "profile"
        /\ (ActivateStep(activeIndex) \/ ViewButtonClick)) =>
          /\ navLog' = Append(navLog, Card(activeIndex).link)
          /\ location' = Card(activeIndex).link
          /\ UNCHANGED <<activeIndex, direction>>]_vars

\* The wide carousel has navigated to the page of its centre card.
C7_Witness ==
    /\ ~isMobile
    /\ activeIndex # 0
    /\ navLog = <<Card(activeIndex).link>>
    /\ location = Card(activeIndex).link

C9_MobileTapIsActivate ==
    [][\A i \in 0..(N - 1) :
          MobileCardClick(i) =>
              IF i # activeIndex
              THEN activeIndex' = i /\ navLog' = navLog
              ELSE /\ activeIndex' = activeIndex
                   /\ navLog' = IF Card(i).type = "profile" THEN navLog
                                ELSE Append(navLog, Card(i).link)]_vars

\* C9 as amended: the tap hands card i's link to navigate(), whatever
\* activeIndex is, and changes neither activeIndex nor direction.
C9_MobileTapNavigates ==
    [][\A i \in 0..(N - 1) :
          MobileCardClick(i) =>
              /\ navLog' = Append(navLog, Card(i).link)
              /\ location' = Card(i).link
              /\ UNCHANGED <<activeIndex, direction>>]_vars

\* The compact layout has navigated to a card other than the active one.
C9_Witness ==
    /\ isMobile
    /\ Len(navLog) = 1
    /\ location = navLog[1]
    /\ location # Card(activeIndex).link
    /\ activeIndex = 0

(***************************************************************************)
(* C10.  A step that changes the viewport mode leaves activeIndex and      *)
(* direction, and also the deck, the location and the navigation log, as   *)
(* they were.                                                              *)
(***************************************************************************)
C10_ModeChangeKeepsCarouselState ==
    [][(isMobile' # isMobile) =>
          UNCHANGED <<activeIndex, direction, cardData, location, navLog>>]_vars

\* The compact layout is shown while the carousel state is one that only
\* the wide layout can have produced.
C10_Witness ==
    /\ Mounted /\ isMobile
    /\ activeIndex # 0
    /\ direction # 0

(***************************************************************************)
(* C11.  The render's neighbours are prevIndex = (activeIndex - 1 + N)     *)
(* mod N and nextIndex = (activeIndex + 1) mod N.  With N >= 3 both differ *)
(* from activeIndex and from each other; with N = 1 both equal             *)
(* activeIndex; with N = 2 both equal the one other index.                 *)
(***************************************************************************)
C11_Neighbors ==
    /\ prevIndex = (activeIndex - 1 + N) % N
    /\ nextIndex = (activeIndex + 1) % N
    /\ N >= 3 => Cardinality({prevIndex, activeIndex, nextIndex}) = 3
    /\ N = 1 => prevIndex = activeIndex /\ nextIndex = activeIndex
    /\ N = 2 => prevIndex = 1 - activeIndex /\ nextIndex = 1 - activeIndex

\* A deck of two cards whose second card is active: both neighbours are
\* the first card.
C11_Witness ==
    /\ N = 2
    /\ activeIndex = 1
    /\ direction # 0

(***************************************************************************)
(* C12.  From activeIndex = 0 on the five-card deck, successive goToNext   *)
(* calls give 1, 2, 3, 4, 0 and then 1 again; on every deck N successive   *)
(* calls give back the activeIndex they started from, and fewer do not.    *)
(***************************************************************************)
RECURSIVE AdvanceTimes(_, _)
\* activeIndex after k goToNext calls from activeIndex = a
AdvanceTimes(a, k) ==
    IF k = 0 THEN a ELSE AdvanceTimes(goToNext(a).activeIndex, k - 1)

C12_AdvanceCycle ==
    /\ AdvanceTimes(activeIndex, N) = activeIndex
    /\ \A k \in 1..(N - 1) : AdvanceTimes(activeIndex, k) # activeIndex
    /\ N = 5 => [k \in 1..6 |-> AdvanceTimes(0, k)] = <<1, 2, 3, 4, 0, 1>>

\* The right arrow has just wrapped the five-card deck from its last card
\* to its first: card 3 is leaving the render that had activeIndex = 4.
C12_Witness ==
    /\ N = 5
    /\ activeIndex = 0
    /\ [index |-> 3, activeIndex |-> 4] \in exiting

\* The wide layout of a mounted carousel is on screen.
DesktopMounted == Mounted /\ ~isMobile

\* The cards in the DOM of the wide layout: the three of the current render
\* and the ones AnimatePresence still keeps for their exit animation.
MountedCards == Slots(activeIndex) \cup {e.index : e \in exiting}

(***************************************************************************)
(* C13 (as stated).  In wide mode the mounted cards are at every moment,   *)
(* exit animations in flight included, exactly prevIndex, activeIndex and  *)
(* nextIndex of the current state.                                         *)
(***************************************************************************)
C13_ExactlyThreeMounted ==
    DesktopMounted => MountedCards = {prevIndex, activeIndex, nextIndex}

(***************************************************************************)
(* C13 (amended).  In wide mode the current render holds exactly           *)
(* prevIndex, activeIndex and nextIndex; a card that a navigation step     *)
(* drops from the render stays mounted while its exit animation plays, so  *)
(* every card of the render before a step is still mounted after it.  A    *)
(* mounted card outside the three is always such an exiting card of an     *)
(* earlier render, and with no exit in flight exactly the three are        *)
(* mounted.                                                                *)
(***************************************************************************)
C13_ThreeSlotsPlusExiting ==
    [][DesktopMounted' =>
        /\ \A e \in exiting' :
              /\ e.index \notin Slots(activeIndex')
              /\ e.index \in Slots(e.activeIndex)
              /\ ValidIndex(e.index)
        /\ exiting' = {} => MountedCards' = {prevIndex', activeIndex', nextIndex'}
        /\ DesktopMounted => Slots(activeIndex) \subseteq MountedCards']_vars

\* Two quick arrow clicks: the three cards of the render and two exiting
\* ones, all five cards of the deck, are mounted at once.
C13_Witness ==
    /\ DesktopMounted
    /\ Cardinality(MountedCards) = 5
    /\ Cardinality(exiting) = 2

(***************************************************************************)
(* Enter and exit offsets of the wide layout.                              *)
(***************************************************************************)
\* cardVariants.enter(custom).x and cardVariants.exit(custom).x
cardVariantsEnterX(custom) == IF custom > 0 THEN 300 ELSE -300
cardVariantsExitX(custom) == IF custom < 0 THEN 300 ELSE -300

\* The custom prop of the motion.div of card index in a render with
\* activeIndex = a: 0 for the centre, 1 for the right side, -1 for the left.
CardCustom(index, a) ==
    IF index = a THEN 0 ELSE (IF index = JSRem(a + 1, N) THEN 1 ELSE -1)

\* A card mounting in a render with activeIndex = a starts from
\* initial="enter", resolved with its own custom prop.
EnterX(index, a) == cardVariantsEnterX(CardCustom(index, a))

\* A card removed by a render animates to exit="exit", resolved with the
\* custom of AnimatePresence, which is that render's direction.
ExitX(dir) == cardVariantsExitX(dir)

(***************************************************************************)
(* C14.  On every wide-mode navigation step, wrapping steps included: when *)
(* direction is forward (1) the newly mounted cards enter from the right   *)
(* (x > 0) and the removed cards exit to the left (x < 0); when direction  *)
(* is backward (-1) they enter from the left and exit to the right.        *)
(***************************************************************************)
C14_DirectionPicksSides ==
    [][(DesktopMounted /\ DesktopMounted' /\ activeIndex' # activeIndex) =>
        /\ direction' = 1 =>
              /\ \A i \in Slots(activeIndex') \ MountedCards :
                    EnterX(i, activeIndex') > 0
              /\ \A j \in Slots(activeIndex) \ Slots(activeIndex') :
                    ExitX(direction') < 0
        /\ direction' = -1 =>
              /\ \A i \in Slots(activeIndex') \ MountedCards :
                    EnterX(i, activeIndex') < 0
              /\ \A j \in Slots(activeIndex) \ Slots(activeIndex') :
                    ExitX(direction') > 0]_vars

(***************************************************************************)
(* C15.  In wide mode only a click on the centre slot (the active card or  *)
(* its View button) sends a path to the router; a click on a side slot or  *)
(* on an arrow only re-centres the carousel and never navigates.           *)
(***************************************************************************)
C15_OnlyCentreNavigates ==
    [][/\ (DesktopMounted /\ navLog' # navLog) =>
              (DesktopCardClick(activeIndex) \/ ViewButtonClick)
       /\ (\/ ClickPrev
           \/ ClickNext
           \/ \E i \in Slots(activeIndex) \ {activeIndex} : DesktopCardClick(i)) =>
              /\ navLog' = navLog
              /\ location' = location
              /\ activeIndex' # activeIndex]_vars

(***************************************************************************)
(* C16.  The carousel state is activeIndex = 0, direction = 0 (none) at    *)
(* every mount and is discarded on unmount: at the first load, and         *)
(* whenever the home route is entered again from a routed page after any   *)
(* carousel operations, the carousel shows activeIndex 0 and direction 0,  *)
(* with no card of the earlier mount left.                                 *)
(***************************************************************************)
C16_MountStartsFromZero ==
    /\ Mounted => (activeIndex = 0 /\ direction = 0 /\ exiting = {})
    /\ [][(~Mounted /\ Mounted') =>
             (activeIndex' = 0 /\ direction' = 0 /\ exiting' = {})]_vars

\* The carousel was moved to the Tech Stack card, its page was opened and
\* the "Back to Home" link brought the home route back.
C16_Witness ==
    /\ DesktopMounted
    /\ navLog = <<"/tech-stack">>
    /\ activeIndex = 0
    /\ direction = 0

(***************************************************************************)
(* C17.  The deck is never empty, its ids are pairwise distinct, exactly   *)
(* one card has type profile and it is the card at index 0; no operation   *)
(* inserts, removes or reorders cards: the deck is the same after every    *)
(* step.                                                                   *)
(***************************************************************************)
C17_DeckFixedProfileFirst ==
    /\ [](/\ Len(cardData) >= 1
          /\ \A i, j \in 1..Len(cardData) :
                i # j => cardData[i].id # cardData[j].id
          /\ {i \in 1..Len(cardData) : cardData[i].type = "profile"} = {1}
          /\ Card(0).type = "profile")
    /\ [][cardData' = cardData]_vars

\* After arrow clicks, a navigation and the return to the home route the
\* carousel has been moved again: a card leaves it, the deck is the same.
C17_Witness ==
    /\ Mounted
    /\ navLog # <<>>
    /\ activeIndex # 0
    /\ exiting # {}
    /\ Len(cardData) = 5
    /\ Card(0).type = "profile"

(***************************************************************************)
(* C18.  While the carousel is mounted in wide mode there is no terminal   *)
(* state: in every reachable state, on every deck, the right arrow         *)
(* (advance) and the left arrow (retreat) are both enabled, and each       *)
(* yields a valid index and a direction in {-1, 0, 1}.                     *)
(***************************************************************************)
C18_ArrowsAlwaysEnabled ==
    DesktopMounted =>
        /\ ENABLED ClickNext
        /\ ENABLED ClickPrev
        /\ ValidIndex(goToNext(activeIndex).activeIndex)
        /\ ValidIndex(goToPrev(activeIndex).activeIndex)
        /\ {goToNext(activeIndex).direction, goToPrev(activeIndex).direction}
              \subseteq {-1, 0, 1}

\* The right arrow has brought a six-card deck from its fifth to its last
\* card, where a carousel without wrap-around would have to stop.
C18_Witness ==
    /\ DesktopMounted
    /\ N = MaxDeck
    /\ activeIndex = N - 1
    /\ [index |-> N - 3, activeIndex |-> N - 2] \in exiting

(***************************************************************************)
(* C19.  An operation issued while a transition is in flight is not        *)
(* blocked, dropped or deferred but applied at once to the latest state:   *)
(* both arrows are enabled whatever is exiting and move activeIndex by one *)
(* step mod N from its latest value; a click on a card that is still       *)
(* mounted, being different from the latest activeIndex, selects that card *)
(* with the direction of its index against the latest activeIndex and      *)
(* sends nothing to the router; and the three slots of the latest state    *)
(* are rendered, none of them as an exiting card.                          *)
(***************************************************************************)
C19_AppliedToLatestState ==
    [][/\ DesktopMounted => (ENABLED ClickNext /\ ENABLED ClickPrev)
       /\ ClickNext => activeIndex' = (activeIndex + 1) % N
       /\ ClickPrev => activeIndex' = (activeIndex - 1 + N) % N
       /\ \A e \in exiting :
             ExitingCardClick(e) =>
                 /\ activeIndex' = e.index
                 /\ direction' = Sign(e.index - activeIndex)
                 /\ navLog' = navLog
       /\ DesktopMounted' =>
             Slots(activeIndex') \cap {e.index : e \in exiting'} = {}]_vars

\* handleSubmit calls made so far
Submits == Len(submitLog) + Len(pending)

(***************************************************************************)
(* C20.  Every submit of the contact form is eventually followed by its    *)
(* success notification on screen, and a form that is submitting           *)
(* eventually has its three fields empty and isSubmitting false again: it  *)
(* never stays in the submitting state.                                    *)
(***************************************************************************)
C20_SubmitEventuallyCompletes ==
    /\ \A k \in 1..MaxSubmit : (Submits >= k) ~> (toastShown >= k)
    /\ (Mounted /\ isSubmitting) ~>
           (~Mounted \/ (~isSubmitting /\ formData = initialFormData))

(***************************************************************************)
(* C21.  While CustomCursor is mounted and the pointer rests over the wide *)
(* home layout, the cursor's visual state is 'pointer' exactly when the    *)
(* element under the pointer, or one of its ancestors, is flagged          *)
(* interactive, and 'default' otherwise, also after carousel operations    *)
(* that change the element under a pointer that does not move.             *)
(***************************************************************************)
C21_CursorMatchesElement ==
    (cursorMounted /\ DesktopMounted /\ pointerAt \in Positions) =>
        (isPointer <=> closest(TargetAt(pointerAt)))

(***************************************************************************)
(* C22.  The system cursor is hidden (document.body.style.cursor is        *)
(* 'none') exactly while CustomCursor is mounted; while it is mounted the  *)
(* registered listeners are the mousemove, mouseenter and mouseleave       *)
(* handlers of its current effect and no others; after every unmount no    *)
(* listener is left and the body cursor is 'auto' again, however many      *)
(* mounts and unmounts went before.                                        *)
(***************************************************************************)
C22_CursorHiddenWhileMounted ==
    /\ cursorMounted <=> bodyCursor = "none"
    /\ cursorMounted =>
          /\ listeners = EffectListeners(cursorEffects)
          /\ {l.type : l \in listeners} = {"mousemove", "mouseenter", "mouseleave"}
    /\ ~cursorMounted => (listeners = {} /\ bodyCursor = "auto")

\* CustomCursor has been mounted and unmounted twice.
C22_Witness ==
    /\ ~cursorMounted
    /\ cursorEffects = 2
    /\ listeners = {}
    /\ bodyCursor = "auto"

\* The parts of C23 that speak of one state of the page at path page.
PageShowsPrefix(page) ==
    LET total == Len(allItems[page])
        shown == visibleItems(page)
    IN  /\ Len(shown) = (IF visibleCount[page] < total THEN visibleCount[page] ELSE total)
        /\ \A i \in 1..Len(shown) : shown[i] = allItems[page][i]
        /\ SeeMoreOffered(page) <=> visibleCount[page] < total
        /\ SeeMoreOffered(page) <=> Len(shown) < total

C24_LinksWideOrInDrawer ==
    /\ [](/\ ~isMobile => StickySidebar = socialLinks
          /\ isMobile => (StickySidebar # <<>> <=> sheetOpen)
          /\ StickySidebar # <<>> =>
                StickySidebar = <<"cv", "github", "website", "linkedin">>
          /\ sheetOpen => isMobile)
    /\ [][(~sheetOpen /\ sheetOpen') => SheetTriggerClick]_vars

\* Compact mode with the drawer opened by its trigger: the four links show.
C24_Witness ==
    /\ isMobile
    /\ sheetOpen
    /\ Len(StickySidebar) = 4

\* The cyclic neighbours of index a in a deck of n items.
CyclicNeighbours(a, n) == {(a + 1) % n, (a - 1 + n) % n}

(***************************************************************************)
(* C25.  Every step that changes activeIndex of the mounted carousel moves *)
(* it to a cyclic neighbour of its previous value: activeIndex plus or     *)
(* minus 1 modulo N.                                                       *)
(***************************************************************************)
C25_StepsToNeighbour ==
    [][(Mounted /\ Mounted' /\ activeIndex' # activeIndex) =>
          activeIndex' \in CyclicNeighbours(activeIndex, N)]_vars

\* A tap on the card of index i in the compact strip hands that card's link
\* to navigate() and leaves the carousel's cells alone.
TapOnlyNavigates ==
    \A index \in 0..(N - 1) :
        MobileCardClick(index) =>
            /\ navLog' = Append(navLog, Card(index).link)
            /\ UNCHANGED <<activeIndex, direction>>

(***************************************************************************)
(* C26 (as stated).  In compact mode every card tap, the profile card's    *)
(* included, hands the card's link to navigate() and changes neither       *)
(* activeIndex nor direction; and no step taken in compact mode, the       *)
(* steps into and out of it included, changes activeIndex or direction,    *)
(* so the wide layout finds them as it left them.                          *)
(***************************************************************************)
C26_CompactKeepsCarouselState ==
    [][/\ TapOnlyNavigates
       /\ (isMobile \/ isMobile') => UNCHANGED <<activeIndex, direction>>]_vars

(***************************************************************************)
(* C26 (amended).  The same while the carousel stays mounted.  A tap on a  *)
(* card other than the profile card leaves the home route, and the return  *)
(* to it mounts a new carousel with activeIndex 0 and no direction.        *)
(***************************************************************************)
C26_CompactKeepsStateWhileMounted ==
    [][/\ TapOnlyNavigates
       /\ ((isMobile \/ isMobile') /\ Mounted) =>
             UNCHANGED <<activeIndex, direction>>
       /\ (~Mounted /\ Mounted') => (activeIndex' = 0 /\ direction' = 0)]_vars

\* Compact mode entered with card 2 in the centre; the profile card was
\* tapped, which sent "/" to the router, and card 2 is still the centre.
C26_Witness ==
    /\ isMobile
    /\ Mounted
    /\ activeIndex = 2
    /\ direction = 1
    /\ navLog = <<"/">>

\* The path is matched by exactly one <Route>.
Routed(path) == Cardinality(RouteMatches(path)) = 1

(***************************************************************************)
(* C27.  The links of the deck are '/', '/about', '/projects',             *)
(* '/certificates' and '/tech-stack', each matched by exactly one Route;   *)
(* every path the carousel has handed to navigate() and the location it    *)
(* led to are matched by exactly one Route.                                *)
(***************************************************************************)
C27_CarouselLinksRouted ==
    /\ {cardData[i].link : i \in DOMAIN cardData} =
           {"/", "/about", "/projects", "/certificates", "/tech-stack"}
    /\ \A i \in DOMAIN cardData : Routed(cardData[i].link)
    /\ \A i \in DOMAIN navLog : Routed(navLog[i])
    /\ Routed(location)

\* The profile card was tapped and then the Tech Stack card was opened: both
\* signals went to routed paths.
C27_Witness ==
    /\ navLog = <<"/", "/tech-stack">>
    /\ location = "/tech-stack"

(***************************************************************************)
(* C28.  At most one handleSubmit call waits on its timer at any time: a   *)
(* submit starts only while isSubmitting is false and no other call        *)
(* waits, and each call, when its timer fires, displays one success        *)
(* notification and resets the form (empty fields, isSubmitting false).    *)
(***************************************************************************)
C28_OneSubmissionInFlight ==
    /\ [](Len(pending) <= 1)
    /\ [][/\ handleSubmit => (~isSubmitting /\ pending = <<>>)
          /\ handleSubmitResume =>
                /\ toastShown' = toastShown + 1
                /\ formData' = initialFormData
                /\ isSubmitting' = FALSE]_vars

(***************************************************************************)
(* C29.  A submit records the name, email and message of the moment it is  *)
(* pressed; edits made while it waits do not change what it recorded; on   *)
(* completion it reports exactly that record, and the fields of the form   *)
(* on screen are then all empty, whatever was typed in between.            *)
(***************************************************************************)
C29_SnapshotReportedEditsErased ==
    [][/\ handleSubmit =>
             /\ Len(pending') = Len(pending) + 1
             /\ pending'[Len(pending')].formData = formData
       /\ \A name \in Fields, value \in FieldValues :
             handleChange(name, value) =>
                 [i \in DOMAIN pending' |-> pending'[i].formData] =
                 [i \in DOMAIN pending |-> pending[i].formData]
       /\ handleSubmitResume =>
             /\ submitLog' = Append(submitLog, Head(pending).formData)
             /\ Mounted => formData' = initialFormData]_vars

(***************************************************************************)
(* C30.  On every routed page other than the home route the "Back to Home" *)
(* link is available, so the home route with its carousel can be reached   *)
(* again from every state.                                                 *)
(***************************************************************************)
C30_BackToHomeOnEveryPage ==
    location # "/" => ENABLED BackToHome

====
